---- MODULE Spec2Model ----
(***************************************************************************)
(* Boot orchestration of the emulator core (Source/Core/Core/Boot/Boot.cpp) *)
(* as a state machine.  One boot session is modelled: the configuration     *)
(* (SConfig) and the outcomes of the external collaborators (files, disc    *)
(* images, container loaders) are fixed by Init, and one entry point of     *)
(* CBoot is then run to completion.  Every side effect of the run is        *)
(* appended to `trace` in program order; CPU registers, tracked low-memory  *)
(* words and the mounted volume are kept as state.                          *)
(*                                                                         *)
(* 32-bit words are pairs <<hi, lo>> of 16-bit halves, so that values above *)
(* 2^31 (0x81200150, 0xfff0001f, the CRC32 table) keep their exact value.   *)
(***************************************************************************)
EXTENDS Integers, Sequences, FiniteSets, TLC

VARIABLES
    cfg,        \* SConfig::GetInstance(): the boot configuration
    env,        \* outcomes of the external collaborators in this session
    volume,     \* DVDInterface: "none", "GAMECUBE_DISC" or "WII_DISC"
    ppcState,   \* PowerPC::ppcState and PC: register name -> 32-bit word
    low,        \* guest memory words at the fixed low addresses
    trace,      \* side effects performed so far, in program order
    status,     \* "idle", "returned" or "faulted"
    ret,        \* value returned by the entry point (when status = "returned")
    ub,         \* TRUE once the run has accessed bytes outside a buffer
    entry,      \* the entry point that was run: "none" before the run
    out         \* the output strings of FindMapFile, once it has run

vars == <<cfg, env, volume, ppcState, low, trace, status, ret, ub, entry, out>>

----------------------------------------------------------------------------
(* 32-bit words *)

Half == 2 ^ 16

W(hi, lo) == <<hi, lo>>

Zero32 == W(0, 0)

\* a non-negative integer below 2^31 as a 32-bit word
W32(n) == W(n \div Half, n % Half)

\* a - b modulo 2^32
Sub32(a, b) ==
    LET borrow == IF a[2] < b[2] THEN 1 ELSE 0
    IN  W((a[1] - b[1] - borrow + 2 * Half) % Half, (a[2] - b[2] + Half) % Half)

\* a << s modulo 2^32, for 0 <= s < 16
Shl32(a, s) ==
    LET f == 2 ^ s
    IN  W((a[1] * f + (a[2] * f) \div Half) % Half, (a[2] * f) % Half)

\* a <= b as unsigned 32-bit words
Le32(a, b) == a[1] < b[1] \/ (a[1] = b[1] /\ a[2] <= b[2])

----------------------------------------------------------------------------
(* The side-effect log *)

\* one side effect: the operation and its 32-bit arguments
Ev(op, args) == [op |-> op, x |-> args]

E(op) == Ev(op, <<>>)

Log(m, e) == [m EXCEPT !.trace = Append(@, e)]

\* a CPU register assignment: logged, and applied to the register file
SetReg(m, r, v) ==
    [m EXCEPT !.ppc = [@ EXCEPT ![r] = v],
              !.trace = Append(@, Ev("reg:" \o r, <<v>>))]

RECURSIVE SetRegs(_, _)
SetRegs(m, ws) ==
    IF ws = <<>> THEN m
    ELSE SetRegs(SetReg(m, ws[1][1], ws[1][2]), Tail(ws))

OpsOf(t) == {t[i].op : i \in DOMAIN t}

Count(t, ops) == Cardinality({i \in DOMAIN t : t[i].op \in ops})

\* position of the first event with operation op, 0 when there is none
FirstAt(t, op) ==
    IF op \in OpsOf(t) THEN CHOOSE i \in DOMAIN t : t[i].op = op /\ \A j \in 1..(i - 1) : t[j].op # op
    ELSE 0

----------------------------------------------------------------------------
(* Load_BS2: the firmware (IPL) loader *)

\* CRC32 hashes of the known IPL dumps
USA_v1_0 == W(\h6D74, \h0AE7)
USA_v1_1 == W(\hD5E6, \hFEEA)
USA_v1_2 == W(\h8657, \h3808)
BRA_v1_0 == W(\h667D, \h0B64)
JAP_v1_0 == W(\h6DAC, \h1F2A)
JAP_v1_1 == W(\hD235, \hE3F9)
PAL_v1_0 == W(\h4F31, \h9F43)
PAL_v1_1 == W(\hDD8C, \hAB7C)
PAL_v1_2 == W(\hAD1B, \h7F16)

Regions == {"NTSC_J", "NTSC_U", "PAL", "UNKNOWN_REGION"}

\* the switch over ipl_hash
IplRegion(ipl_hash) ==
    CASE ipl_hash \in {USA_v1_0, USA_v1_1, USA_v1_2, BRA_v1_0} -> "NTSC_U"
      [] ipl_hash \in {JAP_v1_0, JAP_v1_1} -> "NTSC_J"
      [] ipl_hash \in {PAL_v1_0, PAL_v1_1, PAL_v1_2} -> "PAL"
      [] OTHER -> "UNKNOWN_REGION"

\* byte ranges of the ROM dump that the install step uses
BS_OFFSET == \h100
BS_LENGTH == \h1AFE00
BS1_LENGTH == \h700
BS2_OFFSET == \h820

\* guest addresses the two sub-ranges are copied to
BS1_ADDRESS == W(\h0120, \h0000)
BS2_ADDRESS == W(\h0130, \h0000)

\* the literal CPU state written after the copies, in program order
BS2Registers ==
    << <<"gpr[3]", W(\hfff0, \h001f)>>,
       <<"gpr[4]", W(\h0000, \h2030)>>,
       <<"gpr[5]", W(\h0000, \h009c)>>,
       <<"msr",    W(\h0000, \h2030)>>,
       <<"HID0",   W(\h0011, \hc464)>>,
       <<"IBAT0U", W(\h8000, \h1fff)>>,
       <<"IBAT0L", W(\h0000, \h0002)>>,
       <<"IBAT3U", W(\hfff0, \h001f)>>,
       <<"IBAT3L", W(\hfff0, \h0001)>>,
       <<"DBAT0U", W(\h8000, \h1fff)>>,
       <<"DBAT0L", W(\h0000, \h0002)>>,
       <<"DBAT1U", W(\hc000, \h1fff)>>,
       <<"DBAT1L", W(\h0000, \h002a)>>,
       <<"DBAT3U", W(\hfff0, \h001f)>>,
       <<"DBAT3L", W(\hfff0, \h0001)>> >>

BS2EntryPoint == W(\h8120, \h0150)

\* An access to bytes [off, off + len) of the buffer read from the ROM file.
\* Inside the buffer it is the logged operation.  Outside it the behaviour
\* is undefined: the run either faults there or carries on over whatever
\* bytes lie behind the buffer (fw.oob is the outcome this build produces).
BufferAccess(m, fw, off, len, e) ==
    IF m.status = "faulted" THEN m
    ELSE IF off + len <= fw.dataSize THEN Log(m, e)
    ELSE IF fw.oob = "fault" THEN [m EXCEPT !.status = "faulted", !.ub = TRUE]
    ELSE [Log(m, e) EXCEPT !.ub = TRUE]

\* the install step: descramble, two copies, the register file, PC
InstallBS2(m, fw) ==
    LET d  == BufferAccess(m, fw, BS_OFFSET, BS_LENGTH,
                  Ev("Descrambler", <<W32(BS_OFFSET), W32(BS_LENGTH)>>))
        c1 == BufferAccess(d, fw, BS_OFFSET, BS1_LENGTH,
                  Ev("CopyToEmu", <<BS1_ADDRESS, W32(BS_OFFSET), W32(BS1_LENGTH)>>))
        c2 == BufferAccess(c1, fw, BS2_OFFSET, BS_LENGTH,
                  Ev("CopyToEmu", <<BS2_ADDRESS, W32(BS2_OFFSET), W32(BS_LENGTH)>>))
    IN  IF c2.status = "faulted" THEN c2
        ELSE LET r  == SetRegs(c2, BS2Registers)
                 b  == Log(Log(r, E("DBATUpdated")), E("IBATUpdated"))
                 pc == SetReg(b, "PC", BS2EntryPoint)
             IN  [Log(pc, E("Load_BS2=true")) EXCEPT !.ret = TRUE]

\* Load_BS2 with the install step left out for an image of unknown checksum
Load_BS2SkipsUnknown(m, fw) ==
    LET m0 == Log(m, E("Load_BS2"))
    IN  IF ~fw.readOk
        THEN [Log(Log(m0, E("ReadFileToString=false")), E("Load_BS2=false"))
                 EXCEPT !.ret = FALSE]
        ELSE IF IplRegion(fw.ipl_hash) = "UNKNOWN_REGION"
        THEN [Log(Log(Log(Log(m0, E("ReadFileToString=true")),
                          Ev("PanicAlertT:IPL with unknown hash", <<fw.ipl_hash>>)),
                      E("ipl_region=UNKNOWN_REGION")),
                  E("Load_BS2=true"))
                 EXCEPT !.ret = TRUE]
        ELSE InstallBS2(Log(Log(m0, E("ReadFileToString=true")),
                            E("ipl_region=" \o IplRegion(fw.ipl_hash))), fw)

\* variant: an image whose region is not the configured one is refused
Load_BS2RejectsMismatch(m, fw) ==
    LET m0 == Log(m, E("Load_BS2"))
        ipl_region == IplRegion(fw.ipl_hash)
    IN  IF ~fw.readOk
        THEN [Log(Log(m0, E("ReadFileToString=false")), E("Load_BS2=false"))
                 EXCEPT !.ret = FALSE]
        ELSE IF ipl_region # "UNKNOWN_REGION" /\ m.cfg.m_region # ipl_region
        THEN [Log(Log(Log(Log(m0, E("ReadFileToString=true")),
                          E("ipl_region=" \o ipl_region)),
                      E("PanicAlertT:IPL found in wrong directory")),
                  E("Load_BS2=false"))
                 EXCEPT !.ret = FALSE]
        ELSE InstallBS2(Log(Log(m0, E("ReadFileToString=true")),
                            E("ipl_region=" \o ipl_region)), fw)

Load_BS2(m, fw) ==
    LET m0 == Log(m, E("Load_BS2"))
    IN  IF ~fw.readOk
        THEN [Log(Log(m0, E("ReadFileToString=false")), E("Load_BS2=false"))
                 EXCEPT !.ret = FALSE]
        ELSE
          LET m1 == Log(m0, E("ReadFileToString=true"))
              ipl_region == IplRegion(fw.ipl_hash)
              m2 == IF ipl_region = "UNKNOWN_REGION"
                    THEN Log(Log(m1, Ev("PanicAlertT:IPL with unknown hash", <<fw.ipl_hash>>)),
                             E("ipl_region=UNKNOWN_REGION"))
                    ELSE Log(m1, E("ipl_region=" \o ipl_region))
              boot_region == m.cfg.m_region
              m3 == IF ipl_region # "UNKNOWN_REGION" /\ boot_region # ipl_region
                    THEN Log(m2, E("PanicAlertT:IPL found in wrong directory"))
                    ELSE m2
          IN  InstallBS2(m3, fw)

----------------------------------------------------------------------------
(* The disc: DVDInterface, DVDRead and Load_FST *)

IsDiscInside(m) == m.volume # "none"

\* DVDInterface::SetVolumeName: the image at the path becomes the volume
SetVolumeName(m, disc, which) ==
    [Log(m, E("SetVolumeName:" \o which)) EXCEPT !.volume = disc.mounted]

\* DVDInterface::SetVolumeDirectory: a virtual disc of the given platform
SetVolumeDirectory(m, disc, is_wii) ==
    [Log(m, E("SetVolumeDirectory")) EXCEPT
        !.volume = IF disc.mounted = "none" THEN "none"
                   ELSE IF is_wii THEN "WII_DISC" ELSE "GAMECUBE_DISC"]

\* Memory::Write_U32(value, address) for the tracked low addresses
Write_U32(m, value, address) ==
    [Log(m, Ev("Write_U32", <<value, W(0, address)>>)) EXCEPT !.low = [@ EXCEPT ![address] = value]]

\* the read of the 32-byte disc header to guest address 0
DVDReadHeader(m, disc) ==
    LET r == Log(m, Ev("Volume.Read", <<Zero32, W(0, \h20)>>))
    IN  IF ~disc.readOk THEN r
        ELSE [Log(r, Ev("CopyToEmu", <<Zero32, W(0, \h20)>>)) EXCEPT
                 !.low = [@ EXCEPT ![0] = disc.gameId]]

\* a read of length bytes at dvd_offset to a guest address above the low words
DVDRead(m, disc, dvd_offset, output_address, length) ==
    LET r == Log(m, Ev("Volume.Read", <<dvd_offset, length>>))
    IN  IF ~disc.readOk THEN r
        ELSE Log(r, Ev("CopyToEmu", <<output_address, length>>))

\* Common::AlignDown to a power of two below 2^16
AlignDown(value, size) == W(value[1], value[2] - (value[2] % size))

ARENA_CEILING == W(\h817F, \hFFFF)

\* variant: the boundary is not aligned
ArenaHighUnaligned(max_fst_size, shift) ==
    Sub32(ARENA_CEILING, Shl32(max_fst_size, shift))

ArenaHigh(max_fst_size, shift) ==
    AlignDown(Sub32(ARENA_CEILING, Shl32(max_fst_size, shift)), \h20)

\* variant: the header is read without asking whether a disc is inside
Load_FSTNoDiscCheck(m, disc, is_wii) ==
    LET h == DVDReadHeader(Log(m, E("Load_FST")), disc)
    IN  Write_U32(h, h.low[0], \h3180)

Load_FST(m, disc, is_wii) ==
    IF ~IsDiscInside(m) THEN m
    ELSE
      LET h  == DVDReadHeader(Log(m, E("Load_FST")), disc)
          g  == Write_U32(h, h.low[0], \h3180)
          shift == IF is_wii THEN 2 ELSE 0
          arena_high == ArenaHigh(disc.max_fst_size, shift)
          a  == Write_U32(g, arena_high, \h34)
          f  == DVDRead(a, disc, Shl32(disc.fst_offset, shift), arena_high,
                        Shl32(disc.fst_size, shift))
          b  == Write_U32(f, arena_high, \h38)
      IN  Write_U32(b, Shl32(disc.max_fst_size, shift), \h3c)

----------------------------------------------------------------------------
(* Symbol maps: FindMapFile and LoadMapFromFilename *)

RECURSIVE Join(_)
Join(chars) == IF chars = <<>> THEN "" ELSE chars[1] \o Join(Tail(chars))

\* std::string::find_last_of(c) + 1: 0 when c does not occur (npos + 1)
AfterLast(str, c) ==
    LET at == {i \in DOMAIN str : str[i] = c}
    IN  IF at = {} THEN 0 ELSE CHOOSE i \in at : \A j \in at : j <= i

\* std::string::substr(pos, count) with count taken modulo 2^64: a negative
\* count is a huge one, and the result is cut at the end of the string
Substr(str, pos, count) ==
    LET n == IF count < 0 \/ pos + count > Len(str) THEN Len(str) - pos ELSE count
    IN  SubSeq(str, pos + 1, pos + n)

HexDigit(d) == SubSeq(<<"0","1","2","3","4","5","6","7","8","9","A","B","C","D","E","F">>, d + 1, d + 1)

Hex4(h) == HexDigit(h \div 4096) \o HexDigit((h \div 256) % 16) \o HexDigit((h \div 16) % 16) \o HexDigit(h % 16)

\* "%08X" of a 32-bit word
Hex8(w) == Hex4(w[1]) \o Hex4(w[2])

USER_MAPS_DIR == "User/Maps/"
SYS_MAPS_DIR == "Sys/Maps/"

\* variant: only "/" separates directories
TitleIdSlashOnly(c, wad) ==
    IF c.m_BootType \in {"BOOT_ELF", "BOOT_DOL"}
    THEN LET name_begin_index == AfterLast(c.m_strFilename, "/")
         IN  Substr(c.m_strFilename, name_begin_index,
                    Len(c.m_strFilename) - 4 - name_begin_index)
    ELSE c.gameID

\* the title id as a sequence of characters
TitleId(c, wad) ==
    CASE c.m_BootType = "BOOT_WII_NAND" ->
           IF wad.loaderValid THEN Hex8(wad.titleId[1]) \o <<"_">> \o Hex8(wad.titleId[2])
           ELSE <<>>
      [] c.m_BootType \in {"BOOT_ELF", "BOOT_DOL"} ->
           LET slash == AfterLast(c.m_strFilename, "/")
               back  == AfterLast(c.m_strFilename, "\\")
               name_begin_index == IF back > slash THEN back ELSE slash
           IN  Substr(c.m_strFilename, name_begin_index,
                      Len(c.m_strFilename) - 4 - name_begin_index)
      [] OTHER -> c.gameID

\* variant: the system directory is searched first
FindMapFileSystemFirst(c, e) ==
    LET title_id_str == Join(TitleId(c, e.wad))
    IN  [found    |-> e.map.user \/ e.map.sys,
         existing |-> IF e.map.sys THEN SYS_MAPS_DIR \o title_id_str \o ".map"
                      ELSE IF e.map.user THEN USER_MAPS_DIR \o title_id_str \o ".map"
                      ELSE "",
         writable |-> USER_MAPS_DIR \o title_id_str \o ".map",
         title_id |-> title_id_str]

\* the result of FindMapFile: found, and the three output strings
FindMapFile(c, e) ==
    LET title_id_str == Join(TitleId(c, e.wad))
        inUser == e.map.user
        inSys  == e.map.sys
    IN  [found    |-> inUser \/ inSys,
         existing |-> IF inUser THEN USER_MAPS_DIR \o title_id_str \o ".map"
                      ELSE IF inSys THEN SYS_MAPS_DIR \o title_id_str \o ".map"
                      ELSE "",
         writable |-> USER_MAPS_DIR \o title_id_str \o ".map",
         title_id |-> title_id_str]

\* returns m with ret = the value LoadMapFromFilename returns
LoadMapFromFilename(m, e) ==
    LET f == FindMapFile(m.cfg, e)
    IN  IF ~f.found THEN [m EXCEPT !.ret = FALSE]
        ELSE LET l == Log(m, E("g_symbolDB.LoadMap"))
             IN  IF e.map.loadOk
                 THEN [Log(l, E("Host_NotifyMapLoaded")) EXCEPT !.ret = TRUE]
                 ELSE [l EXCEPT !.ret = FALSE]

\* if (LoadMapFromFilename()) HLE::PatchFunctions();
LoadMapAndPatch(m, e) ==
    LET l == LoadMapFromFilename(m, e)
    IN  IF l.ret THEN Log(l, E("HLE::PatchFunctions")) ELSE l

----------------------------------------------------------------------------
(* External collaborators called by BootUp *)

\* DiscIO::IsNTSC
IsNTSC(region) == region \in {"NTSC_J", "NTSC_U"}

\* CBoot::EmulatedBS2(is_wii): the high-level firmware stub.  It reports
\* whether it applied; when it did, it has left PC at the entry it found.
EmulatedBS2(m, stub, is_wii) ==
    LET l == Log(m, E(IF is_wii THEN "EmulatedBS2(wii)" ELSE "EmulatedBS2(gc)"))
    IN  IF stub.applies
        THEN [l EXCEPT !.ret = TRUE, !.ppc = [@ EXCEPT !["PC"] = stub.pc]]
        ELSE [l EXCEPT !.ret = FALSE]

\* the default system-software version: IOS58
IOS58 == <<W(\h0000, \h0001), W(\h0000, \h003a)>>

SetupWiiMemory(m) == Log(m, Ev("SetupWiiMemory", IOS58))

ReturnFalse(m) == [m EXCEPT !.status = "returned", !.ret = FALSE]

----------------------------------------------------------------------------
(* BootUp: one strategy per boot type *)

One32 == W(0, 1)

\* the fixed guest code range scanned for function signatures
SCAN_RANGE == <<W(\h8000, \h4000), W(\h811f, \hffff)>>

\* BootISO without the fallback: a failed Load_BS2 fails the boot
BootISONoFallback(m, e) ==
    LET v == SetVolumeName(m, e.disc, "m_strFilename")
    IN  IF ~IsDiscInside(v) THEN ReturnFalse(v)
        ELSE
          LET c == [v EXCEPT !.cfg.bWii = (v.volume = "WII_DISC")]
              b == IF c.cfg.bHLE_BS2 THEN EmulatedBS2(c, e.stub, c.cfg.bWii)
                   ELSE Load_BS2(c, e.fw)
          IN  IF b.status = "faulted" THEN b
              ELSE IF ~b.ret THEN ReturnFalse(b)
              ELSE LoadMapAndPatch(Log(b, E("PatchEngine::LoadPatches")), e)

\* variant: the configured console mode is kept and handed to the bring-up
BootISOKeepsMode(m, e) ==
    LET v == SetVolumeName(m, e.disc, "m_strFilename")
    IN  IF ~IsDiscInside(v) THEN ReturnFalse(v)
        ELSE
          LET w == IF (v.volume = "WII_DISC") # v.cfg.bWii
                   THEN Log(v, E("PanicAlertT:starting ISO in wrong console mode"))
                   ELSE v
              b == IF w.cfg.bHLE_BS2 THEN EmulatedBS2(w, e.stub, w.cfg.bWii)
                   ELSE LET r == Load_BS2(w, e.fw)
                        IN  IF r.status = "faulted" \/ r.ret THEN r
                            ELSE EmulatedBS2(r, e.stub, r.cfg.bWii)
          IN  IF b.status = "faulted" THEN b
              ELSE LoadMapAndPatch(Log(b, E("PatchEngine::LoadPatches")), e)

\* case SConfig::BOOT_ISO
BootISO(m, e) ==
    LET v == SetVolumeName(m, e.disc, "m_strFilename")
    IN  IF ~IsDiscInside(v) THEN ReturnFalse(v)
        ELSE
          LET isWiiDisc == v.volume = "WII_DISC"
              w == IF isWiiDisc # v.cfg.bWii
                   THEN Log(v, E("PanicAlertT:starting ISO in wrong console mode"))
                   ELSE v
              c == [w EXCEPT !.cfg.bWii = isWiiDisc]
              \* HLE BS2 or not
              b == IF c.cfg.bHLE_BS2 THEN EmulatedBS2(c, e.stub, c.cfg.bWii)
                   ELSE LET r == Load_BS2(c, e.fw)
                        IN  IF r.status = "faulted" \/ r.ret THEN r
                            ELSE EmulatedBS2(r, e.stub, r.cfg.bWii)
          IN  IF b.status = "faulted" THEN b
              ELSE
                LET p == Log(b, E("PatchEngine::LoadPatches"))
                    \* Scan for common HLE functions
                    s == IF p.cfg.bHLE_BS2 /\ ~p.cfg.bEnableDebugging
                         THEN LET f == Log(p, Ev("PPCAnalyst::FindFunctions", SCAN_RANGE))
                                  d == Log(f, E("SignatureDB::Load"))
                              IN  IF e.sigdb
                                  THEN Log(Log(Log(d, E("SignatureDB::Apply")),
                                               E("HLE::PatchFunctions")),
                                           E("SignatureDB::Clear"))
                                  ELSE d
                         ELSE p
                IN  LoadMapAndPatch(s, e)

\* the mount shared by the raw-executable strategies
MountForExecutable(m, e, is_wii) ==
    IF m.cfg.hasDVDRoot THEN SetVolumeDirectory(m, e.disc, is_wii)
    ELSE IF m.cfg.hasDefaultISO THEN SetVolumeName(m, e.disc, "m_strDefaultISO")
    ELSE m

\* the MSR bits and BAT registers written for a direct DOL entry
DOLRegisters ==
    << <<"msr.FP", One32>>, <<"msr.DR", One32>>,
       <<"msr.IR", One32>>, <<"msr.EE", One32>>,
       <<"IBAT0U", W(\h8000, \h1fff)>>,
       <<"IBAT0L", W(\h0000, \h0002)>>,
       <<"IBAT4U", W(\h9000, \h1fff)>>,
       <<"IBAT4L", W(\h1000, \h0002)>>,
       <<"DBAT0U", W(\h8000, \h1fff)>>,
       <<"DBAT0L", W(\h0000, \h0002)>>,
       <<"DBAT1U", W(\hc000, \h1fff)>>,
       <<"DBAT1L", W(\h0000, \h002a)>>,
       <<"DBAT4U", W(\h9000, \h1fff)>>,
       <<"DBAT4L", W(\h1000, \h0002)>>,
       <<"DBAT5U", W(\hd000, \h1fff)>>,
       <<"DBAT5L", W(\h1000, \h002a)>> >>

\* variant: the segments are loaded but PC is left as the bring-up left it
BootDOLKeepsPC(m, e) ==
    LET d == Log(m, E("CDolLoader"))
    IN  IF ~e.exe.valid THEN ReturnFalse(d)
        ELSE LET v == MountForExecutable(d, e, e.exe.isWii)
                 s == EmulatedBS2(v, e.stub, e.exe.isWii)
             IN  LoadMapAndPatch(Log(s, E("CDolLoader::Load")), e)

\* case SConfig::BOOT_DOL
BootDOL(m, e) ==
    LET d == Log(m, E("CDolLoader"))
    IN  IF ~e.exe.valid THEN ReturnFalse(d)
        ELSE
          LET dolWii == e.exe.isWii
              w == IF dolWii # d.cfg.bWii
                   THEN Log(d, E("PanicAlertT:starting DOL in wrong console mode"))
                   ELSE d
              v == MountForExecutable(w, e, dolWii)
              s == EmulatedBS2(v, e.stub, dolWii)
              x == IF ~s.ret
                   THEN LET r == SetRegs(s, DOLRegisters)
                            h == IF dolWii THEN SetReg(r, "HID4.SBE", One32) ELSE r
                            u == Log(Log(h, E("DBATUpdated")), E("IBATUpdated"))
                            i == IF dolWii THEN SetupWiiMemory(u) ELSE u
                            l == Log(i, E("CDolLoader::Load"))
                        IN  SetReg(l, "PC", e.exe.entry)
                   ELSE s
          IN  LoadMapAndPatch(x, e)

\* variant: the ELF is parsed first and an invalid one ends the boot at once
BootELFParsesFirst(m, e) ==
    LET x == Log(m, E("Boot_ELF"))
    IN  IF ~e.exe.valid THEN ReturnFalse(x)
        ELSE LET v == MountForExecutable(x, e, x.cfg.bWii)
                 b == IF v.cfg.bWii THEN SetupWiiMemory(v) ELSE Log(v, E("EmulatedBS2_GC(true)"))
                 f == Load_FST(b, e.disc, b.cfg.bWii)
             IN  Log(Log(f, E("Host_NotifyMapLoaded")), E("Dolphin_Debugger::AddAutoBreakpoints"))

\* case SConfig::BOOT_ELF
BootELF(m, e) ==
    LET v == MountForExecutable(m, e, m.cfg.bWii)
        \* Poor man's bootup
        b == IF v.cfg.bWii THEN SetupWiiMemory(v) ELSE Log(v, E("EmulatedBS2_GC(true)"))
        f == Load_FST(b, e.disc, b.cfg.bWii)
        x == Log(f, E("Boot_ELF"))
    IN  IF ~e.exe.valid THEN ReturnFalse(x)
        ELSE Log(Log(x, E("Host_NotifyMapLoaded")), E("Dolphin_Debugger::AddAutoBreakpoints"))

\* case SConfig::BOOT_WII_NAND
BootWiiNAND(m, e) ==
    LET b == Log(m, E(IF e.wad.ok THEN "Boot_WiiWAD=true" ELSE "Boot_WiiWAD=false"))
        p == Log(b, E("PatchEngine::LoadPatches"))
        l == LoadMapAndPatch(p, e)
    IN  \* load default image or create virtual drive from directory
        MountForExecutable(l, e, TRUE)

\* BootBS2 with the disc boot's fallback to the high-level stub
BootBS2WithFallback(m, e) ==
    LET r == Load_BS2(m, e.fw)
    IN  IF r.status = "faulted" THEN r
        ELSE IF r.ret THEN LoadMapAndPatch(r, e)
        ELSE LoadMapAndPatch(EmulatedBS2(r, e.stub, r.cfg.bWii), e)

\* case SConfig::BOOT_BS2
BootBS2(m, e) ==
    LET r == Load_BS2(m, e.fw)
    IN  IF r.status = "faulted" THEN r
        ELSE IF r.ret THEN LoadMapAndPatch(r, e)
        ELSE ReturnFalse(r)

\* the switch without its default case: an unknown type falls through
DispatchNoDefault(m, e) ==
    CASE m.cfg.m_BootType = "BOOT_ISO" -> BootISO(m, e)
      [] m.cfg.m_BootType = "BOOT_DOL" -> BootDOL(m, e)
      [] m.cfg.m_BootType = "BOOT_ELF" -> BootELF(m, e)
      [] m.cfg.m_BootType = "BOOT_WII_NAND" -> BootWiiNAND(m, e)
      [] m.cfg.m_BootType = "BOOT_BS2" -> BootBS2(m, e)
      [] OTHER -> m

\* the switch with the Recording case mounting the companion disc
DispatchRecordingMounts(m, e) ==
    CASE m.cfg.m_BootType = "BOOT_ISO" -> BootISO(m, e)
      [] m.cfg.m_BootType = "BOOT_DOL" -> BootDOL(m, e)
      [] m.cfg.m_BootType = "BOOT_ELF" -> BootELF(m, e)
      [] m.cfg.m_BootType = "BOOT_WII_NAND" -> BootWiiNAND(m, e)
      [] m.cfg.m_BootType = "BOOT_BS2" -> BootBS2(m, e)
      [] m.cfg.m_BootType = "BOOT_DFF" -> MountForExecutable(m, e, m.cfg.bWii)
      [] OTHER -> ReturnFalse(Log(m, E("PanicAlertT:Tried to load an unknown file type")))

\* the switch over m_BootType
Dispatch(m, e) ==
    CASE m.cfg.m_BootType = "BOOT_ISO" -> BootISO(m, e)
      [] m.cfg.m_BootType = "BOOT_DOL" -> BootDOL(m, e)
      [] m.cfg.m_BootType = "BOOT_ELF" -> BootELF(m, e)
      [] m.cfg.m_BootType = "BOOT_WII_NAND" -> BootWiiNAND(m, e)
      [] m.cfg.m_BootType = "BOOT_BS2" -> BootBS2(m, e)
      [] m.cfg.m_BootType = "BOOT_DFF" -> m
      [] OTHER -> ReturnFalse(Log(m, E("PanicAlertT:Tried to load an unknown file type")))

\* BootUp with the final patches applied on the failing paths too
BootUpAlwaysPatches(m, e) ==
    LET d == Dispatch(Log(Log(m, E("g_symbolDB.Clear")), E("VideoInterface::Preset(true)")), e)
    IN  IF d.status = "faulted" THEN d
        ELSE [Log(d, E("HLE::PatchFixedFunctions")) EXCEPT !.status = "returned"]

BootUp(m, e) ==
    LET c == Log(m, E("g_symbolDB.Clear"))
        \* PAL Wii uses NTSC framerate and linecount in 60Hz modes
        p == Log(c, E(IF IsNTSC(c.cfg.m_region) \/ (c.cfg.bWii /\ c.cfg.bPAL60)
                      THEN "VideoInterface::Preset(true)"
                      ELSE "VideoInterface::Preset(false)"))
        d == Dispatch(p, e)
    IN  IF d.status # "running" THEN d
        ELSE [Log(d, E("HLE::PatchFixedFunctions")) EXCEPT !.status = "returned", !.ret = TRUE]

----------------------------------------------------------------------------
(* The sessions explored: configurations and collaborator outcomes *)

\* how many unrecognised checksums are tried next to the nine known ones
NumUnknownHashes == 2

\* how many max-FST-size values of the disc header are tried
NumFstSizes == 3

KnownHashes ==
    {USA_v1_0, USA_v1_1, USA_v1_2, BRA_v1_0, JAP_v1_0, JAP_v1_1,
     PAL_v1_0, PAL_v1_1, PAL_v1_2}

\* checksums next to USA_v1_0, none of them in the table
UnknownHashes == {W(USA_v1_0[1], USA_v1_0[2] + k) : k \in 1..NumUnknownHashes}

\* the smallest buffer that holds every byte range the install step uses
FullImageSize == BS2_OFFSET + BS_LENGTH

\* the size of a real ROM dump
RomDumpSize == \h200000

\* sizes of readable files that are too short for the install step
ShortSizes == {0, BS_OFFSET + BS_LENGTH, FullImageSize - 1}

NoFirmware == [readOk |-> FALSE, dataSize |-> 0, ipl_hash |-> Zero32, oob |-> "none"]

FirmwareFiles ==
    {NoFirmware}
    \cup {[readOk |-> TRUE, dataSize |-> RomDumpSize, ipl_hash |-> h, oob |-> "none"] :
             h \in KnownHashes \cup UnknownHashes}
    \cup {[readOk |-> TRUE, dataSize |-> FullImageSize, ipl_hash |-> W(USA_v1_0[1], USA_v1_0[2] + 1),
           oob |-> "none"]}
    \cup {[readOk |-> TRUE, dataSize |-> n, ipl_hash |-> W(USA_v1_0[1], USA_v1_0[2] + 1), oob |-> o] :
             n \in ShortSizes, o \in {"fault", "continue"}}

BootTypes ==
    {"BOOT_ISO", "BOOT_ELF", "BOOT_DOL", "BOOT_WII_NAND", "BOOT_BS2", "BOOT_DFF"}

\* a value of the boot-type field outside the enumeration
InvalidBootTypes == {"BOOT_INVALID"}

Chars(bt) ==
    CASE bt = "BOOT_DOL" -> <<"C", ":", "/", "g", "a", "m", "e", "s", "/", "F", "o", "o", ".", "d", "o", "l">>
      [] bt = "BOOT_ELF" -> <<"C", ":", "\\", "g", "/", "b", "\\", "F", "o", "o", ".", "e", "l", "f">>
      [] OTHER -> <<"g", ".", "i", "s", "o">>

\* the values of a flag: both where the boot type may read it, FALSE elsewhere
Flag(bt, readers) ==
    IF bt \in readers \cup {"BOOT_DFF"} \cup InvalidBootTypes THEN BOOLEAN ELSE {FALSE}

Configs(bt) ==
    {[m_BootType |-> bt, m_strFilename |-> Chars(bt), gameID |-> <<"G", "A", "L", "E">>,
      m_region |-> r, bWii |-> w, bPAL60 |-> p, bHLE_BS2 |-> h, bEnableDebugging |-> d,
      hasDVDRoot |-> dr, hasDefaultISO |-> di] :
        r \in Regions, w \in BOOLEAN, p \in BOOLEAN,
        h \in Flag(bt, {"BOOT_ISO", "BOOT_BS2"}),
        d \in Flag(bt, {"BOOT_ISO"}),
        dr \in Flag(bt, {"BOOT_DOL", "BOOT_ELF", "BOOT_WII_NAND"}),
        di \in Flag(bt, {"BOOT_DOL", "BOOT_ELF", "BOOT_WII_NAND"})}

NoDisc ==
    [mounted |-> "none", readOk |-> FALSE, gameId |-> Zero32,
     fst_offset |-> Zero32, fst_size |-> Zero32, max_fst_size |-> Zero32]

\* max-FST-size fields: 0, a small one, and ones whose << 2 leaves 32 bits
FstSizes == {W(((k - 1) * \h4000) % Half, (k - 1) * \h1234) : k \in 1..NumFstSizes}

Discs(c) ==
    CASE c.m_BootType = "BOOT_ISO" ->
           {[NoDisc EXCEPT !.mounted = v] : v \in {"GAMECUBE_DISC", "WII_DISC"}}
      [] c.m_BootType = "BOOT_ELF" /\ (c.hasDVDRoot \/ c.hasDefaultISO) ->
           {NoDisc}
           \cup {[mounted |-> "GAMECUBE_DISC", readOk |-> ok, gameId |-> W(\h4741, \h4c45),
                  fst_offset |-> W(\h0004, \h5678), fst_size |-> W(\h0000, \h9abc),
                  max_fst_size |-> s] : ok \in BOOLEAN, s \in FstSizes}
      [] c.m_BootType \in {"BOOT_DOL", "BOOT_WII_NAND"} /\ (c.hasDVDRoot \/ c.hasDefaultISO) ->
           {NoDisc, [NoDisc EXCEPT !.mounted = "GAMECUBE_DISC"]}
      [] OTHER -> {NoDisc}

NoExecutable == [valid |-> FALSE, isWii |-> FALSE, entry |-> Zero32]

Executables(c) ==
    CASE c.m_BootType = "BOOT_DOL" ->
           {NoExecutable}
           \cup {[valid |-> TRUE, isWii |-> w, entry |-> x] :
                    w \in BOOLEAN, x \in {W(\h8000, \h3100), W(\h8000, \h4000)}}
      [] c.m_BootType = "BOOT_ELF" ->
           {NoExecutable, [NoExecutable EXCEPT !.valid = TRUE]}
      [] OTHER -> {NoExecutable}

Stubs(c) ==
    IF c.m_BootType = "BOOT_DOL"
    THEN {[applies |-> FALSE, pc |-> Zero32], [applies |-> TRUE, pc |-> W(\h8130, \h0000)]}
    ELSE {[applies |-> TRUE, pc |-> W(\h8130, \h0000)]}

Titles(c) ==
    IF c.m_BootType = "BOOT_WII_NAND"
    THEN {[ok |-> ov[1], loaderValid |-> ov[2],
           titleId |-> <<W(\h0001, \h0002), W(\h4841, \h4241)>>] :
             ov \in {<<TRUE, TRUE>>, <<FALSE, TRUE>>, <<FALSE, FALSE>>}}
    ELSE {[ok |-> FALSE, loaderValid |-> FALSE, titleId |-> <<Zero32, Zero32>>]}

NoMap == [user |-> FALSE, sys |-> FALSE, loadOk |-> FALSE]

Maps(c) ==
    IF c.m_BootType \in {"BOOT_ISO", "BOOT_DOL", "BOOT_WII_NAND", "BOOT_BS2"}
    THEN {NoMap} \cup {[user |-> us[1], sys |-> us[2], loadOk |-> l] :
                          us \in {<<TRUE, FALSE>>, <<FALSE, TRUE>>, <<TRUE, TRUE>>},
                          l \in BOOLEAN}
    ELSE {NoMap}

Firmwares(c) ==
    IF c.m_BootType = "BOOT_BS2" \/ (c.m_BootType = "BOOT_ISO" /\ ~c.bHLE_BS2)
    THEN FirmwareFiles
    ELSE {NoFirmware}

\* a disc boot whose image cannot be mounted reads nothing else
UnmountableImage(c) ==
    IF c.m_BootType = "BOOT_ISO"
    THEN {[fw |-> NoFirmware, disc |-> NoDisc, exe |-> NoExecutable, stub |-> s,
           wad |-> t, map |-> NoMap, sigdb |-> FALSE] : s \in Stubs(c), t \in Titles(c)}
    ELSE {}

Environments(c) ==
    {[fw |-> f, disc |-> d, exe |-> x, stub |-> s, wad |-> t, map |-> mp, sigdb |-> g] :
        f \in Firmwares(c), d \in Discs(c), x \in Executables(c), s \in Stubs(c),
        t \in Titles(c), mp \in Maps(c),
        g \in IF c.m_BootType = "BOOT_ISO" /\ c.bHLE_BS2 /\ ~c.bEnableDebugging
              THEN BOOLEAN ELSE {FALSE}}
    \cup UnmountableImage(c)

----------------------------------------------------------------------------
(* The state machine *)

Registers ==
    {"gpr[3]", "gpr[4]", "gpr[5]", "msr", "msr.FP", "msr.DR", "msr.IR", "msr.EE",
     "HID0", "HID4.SBE", "PC",
     "IBAT0U", "IBAT0L", "IBAT3U", "IBAT3L", "IBAT4U", "IBAT4L",
     "DBAT0U", "DBAT0L", "DBAT1U", "DBAT1L", "DBAT3U", "DBAT3L",
     "DBAT4U", "DBAT4L", "DBAT5U", "DBAT5L"}

LowAddresses == {0, \h3180, \h34, \h38, \h3c}

\* FindMapFile has not run: its output strings are unset
NoOutput == [found |-> FALSE, existing |-> "", writable |-> "", title_id |-> ""]

Init ==
    /\ \E bt \in BootTypes \cup InvalidBootTypes :
         \E c \in Configs(bt) :
           \E e \in Environments(c) :
             /\ cfg = c
             /\ env = e
    /\ volume = "none"
    /\ ppcState = [r \in Registers |-> Zero32]
    /\ low = [a \in LowAddresses |-> Zero32]
    /\ trace = <<>>
    /\ status = "idle"
    /\ ret = FALSE
    /\ ub = FALSE
    /\ entry = "none"
    /\ out = NoOutput

\* the machine an entry point starts on
Machine ==
    [cfg |-> cfg, volume |-> volume, ppc |-> ppcState, low |-> low,
     trace |-> trace, status |-> "running", ret |-> FALSE, ub |-> ub]

\* the state an entry point leaves
Leave(m, name) ==
    /\ cfg' = m.cfg
    /\ volume' = m.volume
    /\ ppcState' = m.ppc
    /\ low' = m.low
    /\ trace' = m.trace
    /\ status' = IF m.status = "faulted" THEN "faulted" ELSE "returned"
    /\ ret' = m.ret
    /\ ub' = m.ub
    /\ entry' = name
    /\ UNCHANGED <<env, out>>

\* the session's one call of CBoot::BootUp
CallBootUp ==
    /\ status = "idle"
    /\ Leave(BootUp(Machine, env), "BootUp")

\* a call of CBoot::Load_BS2 on the configured boot ROM path
CallLoad_BS2 ==
    /\ status = "idle"
    /\ Leave(Load_BS2(Machine, env.fw), "Load_BS2")

Next == CallBootUp \/ CallLoad_BS2

Spec == Init /\ [][Next]_vars

----------------------------------------------------------------------------
(* FindMapFile on its own: any boot type, several paths, any map directories *)

\* directory prefixes: none, "/" only, "\" only, and both in either order
Dirs ==
    {<<>>, <<"/">>,
     <<"C", ":", "/", "g", "a", "m", "e", "s", "/">>,
     <<"C", ":", "\\", "g", "/", "b", "\\">>,
     <<"a", "\\", "b", ".", "c", "/">>}

Stems == {<<"F", "o", "o">>, <<>>}

\* the paths of a raw executable end in its extension: SConfig gives the
\* boot type BOOT_DOL to "*.dol" and BOOT_ELF to "*.elf"
Paths(bt) ==
    CASE bt = "BOOT_DOL" -> {d \o n \o <<".", "d", "o", "l">> : d \in Dirs, n \in Stems}
      [] bt = "BOOT_ELF" -> {d \o n \o <<".", "e", "l", "f">> : d \in Dirs, n \in Stems}
      [] OTHER -> {Chars(bt)}

InitMap ==
    /\ \E bt \in BootTypes \cup InvalidBootTypes : \E p \in Paths(bt) :
         /\ cfg = [m_BootType |-> bt, m_strFilename |-> p, gameID |-> <<"G", "A", "L", "E">>,
                   m_region |-> "NTSC_U", bWii |-> FALSE, bPAL60 |-> FALSE,
                   bHLE_BS2 |-> FALSE, bEnableDebugging |-> FALSE,
                   hasDVDRoot |-> FALSE, hasDefaultISO |-> FALSE]
         /\ \E t \in Titles(cfg) : \E u \in BOOLEAN : \E y \in BOOLEAN :
              env = [fw |-> NoFirmware, disc |-> NoDisc, exe |-> NoExecutable,
                     stub |-> [applies |-> TRUE, pc |-> Zero32], wad |-> t,
                     map |-> [user |-> u, sys |-> y, loadOk |-> FALSE], sigdb |-> FALSE]
    /\ volume = "none"
    /\ ppcState = [r \in Registers |-> Zero32]
    /\ low = [a \in LowAddresses |-> Zero32]
    /\ trace = <<>>
    /\ status = "idle"
    /\ ret = FALSE
    /\ ub = FALSE
    /\ entry = "none"
    /\ out = NoOutput

\* a call of CBoot::FindMapFile with the three output pointers given
CallFindMapFile ==
    /\ status = "idle"
    /\ out' = FindMapFile(cfg, env)
    /\ ret' = out'.found
    /\ status' = "returned"
    /\ entry' = "FindMapFile"
    /\ UNCHANGED <<cfg, env, volume, ppcState, low, trace, ub>>

NextMap == CallFindMapFile

SpecMap == InitMap /\ [][NextMap]_vars

----------------------------------------------------------------------------
(* Load_FST on its own: any volume state, any header, either console mode *)

\* max-FST-size fields around the alignment and around the ceiling, before
\* and after the shift by 2
BoundaryFstSizes ==
    {Zero32, W(0, 1), W(0, \h1f), W(0, \h20), W(0, \h21),
     W(\h205F, \hFFFF), W(\h2060, \h0000),
     W(\h817F, \hFFDF), W(\h817F, \hFFFF), W(\h8180, \h0000), W(\hFFFF, \hFFFF)}

HeaderDiscs ==
    {[mounted |-> v, readOk |-> ok, gameId |-> W(\h4741, \h4c45),
      fst_offset |-> W(\h0004, \h5678), fst_size |-> W(\h0000, \h9abc),
      max_fst_size |-> s] :
        v \in {"none", "GAMECUBE_DISC", "WII_DISC"}, ok \in BOOLEAN,
        s \in BoundaryFstSizes \cup FstSizes}

InitFST ==
    /\ cfg \in {c \in Configs("BOOT_ELF") : c.m_region = "NTSC_U" /\ ~c.bPAL60 /\ ~c.hasDVDRoot}
    /\ \E d \in HeaderDiscs :
         /\ env = [fw |-> NoFirmware, disc |-> d, exe |-> NoExecutable,
                   stub |-> [applies |-> TRUE, pc |-> Zero32],
                   wad |-> [ok |-> FALSE, loaderValid |-> FALSE, titleId |-> <<Zero32, Zero32>>],
                   map |-> NoMap, sigdb |-> FALSE]
         /\ volume = d.mounted
    /\ ppcState = [r \in Registers |-> Zero32]
    /\ low = [a \in LowAddresses |-> Zero32]
    /\ trace = <<>>
    /\ status = "idle"
    /\ ret = FALSE
    /\ ub = FALSE
    /\ entry = "none"
    /\ out = NoOutput

\* a call of CBoot::Load_FST(is_wii) with the console mode of the configuration
CallLoad_FST ==
    /\ status = "idle"
    /\ Leave(Load_FST(Machine, env.disc, cfg.bWii),
             IF cfg.bWii THEN "Load_FST(true)" ELSE "Load_FST(false)")

NextFST == CallLoad_FST

SpecFST == InitFST /\ [][NextFST]_vars

----------------------------------------------------------------------------
(* Vocabulary of the properties *)

Has(op) == op \in OpsOf(trace)

ReturnedTrue == status = "returned" /\ ret

ReturnedFalse == status = "returned" /\ ~ret

RanBootUp == entry = "BootUp"

RanLoad_BS2 == entry = "Load_BS2"

MountOps == {"SetVolumeName:m_strFilename", "SetVolumeName:m_strDefaultISO", "SetVolumeDirectory"}

StubOps == {"EmulatedBS2(wii)", "EmulatedBS2(gc)", "EmulatedBS2_GC(true)"}

MemoryWriteOps == {"CopyToEmu", "Write_U32"}

RegisterWriteOps == {"reg:" \o r : r \in Registers}

InstallOps == {"Descrambler", "CopyToEmu"} \cup RegisterWriteOps \cup {"DBATUpdated", "IBATUpdated"}

ResetRegisters == [r \in Registers |-> Zero32]

ResetLow == [a \in LowAddresses |-> Zero32]

\* what every BootUp does before it dispatches on the boot type
Prologue(t) ==
    /\ Len(t) >= 2
    /\ t[1].op = "g_symbolDB.Clear"
    /\ t[2].op \in {"VideoInterface::Preset(true)", "VideoInterface::Preset(false)"}

----------------------------------------------------------------------------
(* Properties of BootUp *)

\* C1: BootUp applies HLE::PatchFixedFunctions if and only if it returns
\* true.  A run that returns false (or does not return) has not applied it;
\* a run that returns true has applied it exactly once, as its last effect.
C1_FixedPatchesIffTrue ==
    RanBootUp =>
        /\ ReturnedTrue <=> Has("HLE::PatchFixedFunctions")
        /\ ReturnedTrue =>
             /\ Count(trace, {"HLE::PatchFixedFunctions"}) = 1
             /\ trace[Len(trace)].op = "HLE::PatchFixedFunctions"

\* a disc boot that returned true, next to which failing runs exist
C1_Witness ==
    /\ RanBootUp /\ ReturnedTrue
    /\ cfg.m_BootType = "BOOT_ISO"
    /\ trace[Len(trace)].op = "HLE::PatchFixedFunctions"
    /\ Has("HLE::PatchFunctions")

\* C2: with a boot type outside the enumeration BootUp returns false and
\* has mounted nothing, loaded nothing and written no register, PC or
\* memory: after the common prologue it only raises the alert.
C2_UnknownTypeNoEffects ==
    (RanBootUp /\ cfg.m_BootType \notin BootTypes) =>
        /\ ReturnedFalse
        /\ Prologue(trace)
        /\ Len(trace) = 3
        /\ trace[3].op = "PanicAlertT:Tried to load an unknown file type"
        /\ volume = "none"
        /\ ppcState = ResetRegisters
        /\ low = ResetLow

\* an unknown boot type in a configuration that asks for every optional step
C2_Witness ==
    /\ RanBootUp /\ cfg.m_BootType \in InvalidBootTypes
    /\ cfg.hasDVDRoot /\ cfg.hasDefaultISO /\ cfg.bHLE_BS2
    /\ ReturnedFalse

\* C3: the Recording boot type (BOOT_DFF) always returns true, and between
\* the common prologue and the final fixed-function patches it does nothing:
\* no mount, no load, no register, PC or memory write, whatever the rest of
\* the configuration is.
C3_RecordingNoEffects ==
    (RanBootUp /\ cfg.m_BootType = "BOOT_DFF") =>
        /\ ReturnedTrue
        /\ Prologue(trace)
        /\ Len(trace) = 3
        /\ trace[3].op = "HLE::PatchFixedFunctions"
        /\ volume = "none"
        /\ ppcState = ResetRegisters
        /\ low = ResetLow

\* a Recording boot in secondary-console mode with a disc root configured
C3_Witness ==
    /\ RanBootUp /\ cfg.m_BootType = "BOOT_DFF"
    /\ cfg.bWii /\ cfg.hasDVDRoot /\ ~cfg.bHLE_BS2 /\ cfg.bEnableDebugging
    /\ ReturnedTrue

\* C4: a disc boot returns false exactly when no disc is present after the
\* mount.  When the high-level firmware is not requested and Load_BS2
\* returns false, the stub is installed after it and BootUp returns true;
\* when it is requested, Load_BS2 is not attempted.
C4_DiscBootFailsOnlyWithoutDisc ==
    (RanBootUp /\ cfg.m_BootType = "BOOT_ISO") =>
        /\ ReturnedFalse <=> volume = "none"
        /\ (~cfg.bHLE_BS2 /\ Has("Load_BS2=false")) =>
             /\ ReturnedTrue
             /\ Count(trace, StubOps) = 1
             /\ \E i \in DOMAIN trace :
                  /\ trace[i].op \in StubOps
                  /\ FirstAt(trace, "Load_BS2=false") < i
        /\ cfg.bHLE_BS2 => ~Has("Load_BS2")
        /\ (cfg.bHLE_BS2 /\ volume # "none") => Count(trace, StubOps) = 1

\* the fallback: firmware not readable, stub installed, boot succeeds
C4_Witness ==
    /\ RanBootUp /\ cfg.m_BootType = "BOOT_ISO"
    /\ ~cfg.bHLE_BS2 /\ Has("Load_BS2=false")
    /\ Has("EmulatedBS2(wii)")
    /\ ReturnedTrue

\* C5: a Firmware boot (BOOT_BS2) returns true exactly when Load_BS2
\* returned true.  When Load_BS2 returned false, BootUp returns false, the
\* high-level stub is not installed and no symbol map is loaded.
C5_FirmwareBootFollowsLoad_BS2 ==
    (RanBootUp /\ cfg.m_BootType = "BOOT_BS2") =>
        /\ ReturnedTrue <=> Has("Load_BS2=true")
        /\ Has("Load_BS2=false") =>
             /\ ReturnedFalse
             /\ Count(trace, StubOps) = 0
             /\ ~Has("g_symbolDB.LoadMap")
             /\ trace[Len(trace)].op = "Load_BS2=false"

\* the firmware is unreadable although a map exists and the stub is asked for
C5_Witness ==
    /\ RanBootUp /\ cfg.m_BootType = "BOOT_BS2"
    /\ Has("Load_BS2=false")
    /\ cfg.bHLE_BS2 /\ env.map.user /\ env.map.loadOk
    /\ ReturnedFalse

\* the primary input of the attempt is invalid or missing
PrimaryInputInvalid ==
    \/ cfg.m_BootType \in {"BOOT_DOL", "BOOT_ELF"} /\ ~env.exe.valid
    \/ cfg.m_BootType = "BOOT_WII_NAND" /\ ~env.wad.ok
    \/ cfg.m_BootType = "BOOT_ISO" /\ volume = "none"

\* C6: whenever the primary input is invalid or missing (unparsable DOL or
\* ELF, absent or invalid installed title, no disc for a disc boot), BootUp
\* returns false.
C6_InvalidInputIsFatal ==
    (RanBootUp /\ PrimaryInputInvalid) => ReturnedFalse

----------------------------------------------------------------------------
(* Properties of Load_BS2 *)

\* C7: Load_BS2 returns true if and only if the file read succeeded; when
\* the read fails it returns false with no guest-memory write, no register
\* or PC write and no BAT-change notification.
C7_TrueIffReadSucceeded ==
    RanLoad_BS2 =>
        /\ ReturnedTrue <=> env.fw.readOk
        /\ ~env.fw.readOk =>
             /\ ReturnedFalse
             /\ Count(trace, InstallOps) = 0
             /\ ppcState = ResetRegisters

\* the table of the nine known checksums
TableRegion(h) ==
    IF h \in {W(\h6D74, \h0AE7), W(\hD5E6, \hFEEA), W(\h8657, \h3808), W(\h667D, \h0B64)}
    THEN "NTSC_U"
    ELSE IF h \in {W(\h6DAC, \h1F2A), W(\hD235, \hE3F9)} THEN "NTSC_J"
    ELSE IF h \in {W(\h4F31, \h9F43), W(\hDD8C, \hAB7C), W(\hAD1B, \h7F16)} THEN "PAL"
    ELSE "UNKNOWN_REGION"

\* C8: the checksum is classified against the nine-entry table (four
\* NTSC-U, two NTSC-J, three PAL), every other checksum is Unknown and
\* raises the unknown-hash warning, and in all ten cases Load_BS2 returns
\* true when the read succeeded.
C8_ClassifiesAndReturnsTrue ==
    (RanLoad_BS2 /\ env.fw.readOk) =>
        /\ Has("ipl_region=" \o TableRegion(env.fw.ipl_hash))
        /\ Count(trace, {"ipl_region=" \o r : r \in Regions}) = 1
        /\ Has("PanicAlertT:IPL with unknown hash") <=> env.fw.ipl_hash \notin KnownHashes
        /\ ReturnedTrue

\* the CPU boot state Load_BS2 leaves on a machine just reset
BS2BootState ==
    [r \in Registers |->
        CASE r = "gpr[3]" -> W(\hfff0, \h001f)
          [] r = "gpr[4]" -> W(\h0000, \h2030)
          [] r = "gpr[5]" -> W(\h0000, \h009c)
          [] r = "msr"    -> W(\h0000, \h2030)
          [] r = "HID0"   -> W(\h0011, \hc464)
          [] r \in {"IBAT0U", "DBAT0U"} -> W(\h8000, \h1fff)
          [] r \in {"IBAT0L", "DBAT0L"} -> W(\h0000, \h0002)
          [] r \in {"IBAT3U", "DBAT3U"} -> W(\hfff0, \h001f)
          [] r \in {"IBAT3L", "DBAT3L"} -> W(\hfff0, \h0001)
          [] r = "DBAT1U" -> W(\hc000, \h1fff)
          [] r = "DBAT1L" -> W(\h0000, \h002a)
          [] r = "PC"     -> W(\h8120, \h0150)
          [] OTHER -> Zero32]

\* C9: after every successful Load_BS2 the registers it writes and PC hold
\* the same literal values (PC = 0x81200150), whatever region the checksum
\* classified to and whatever region is configured: the CPU boot state is
\* one fixed value, so two successful loads cannot differ in it.
C9_BootStateIndependentOfRegion ==
    Has("Load_BS2=true") =>
        /\ ppcState = BS2BootState
        /\ Count(trace, RegisterWriteOps) = Len(BS2Registers) + 1

\* a successful load of an image of unknown checksum under a PAL configuration
C9_Witness ==
    /\ RanLoad_BS2 /\ ReturnedTrue
    /\ Has("ipl_region=UNKNOWN_REGION")
    /\ cfg.m_region = "PAL"
    /\ ~ub

----------------------------------------------------------------------------
(* Load_FST *)

RanLoad_FST == entry \in {"Load_FST(true)", "Load_FST(false)"}

\* C11: a Load_FST with no disc mounted reads nothing from the disc and
\* writes nothing to guest memory, for either value of its argument.
C11_NoDiscNoEffects ==
    RanLoad_FST /\ env.disc.mounted = "none" =>
        /\ Count(trace, {"Volume.Read"} \cup MemoryWriteOps) = 0
        /\ trace = <<>>
        /\ low = ResetLow
        /\ volume = "none"

\* Load_FST(true) has returned and there was no disc
C11_Witness ==
    /\ entry = "Load_FST(true)" /\ status = "returned"
    /\ env.disc.mounted = "none"
    /\ env.disc.readOk

\* the max-FST-size field after the scaling of the console mode, in 32 bits
ScaledMaxFstSize == Shl32(env.disc.max_fst_size, IF cfg.bWii THEN 2 ELSE 0)

\* a is the greatest multiple of 32 that is <= d
GreatestMultipleOf32(a, d) ==
    /\ a[2] % 32 = 0
    /\ a[1] = d[1] /\ a[2] <= d[2] /\ d[2] - a[2] < 32

----------------------------------------------------------------------------
(* Raw executables *)

ValidDOLBoot == RanBootUp /\ cfg.m_BootType = "BOOT_DOL" /\ env.exe.valid

\* the segments were loaded once, then PC was written once
LoadedThenEntered ==
    /\ Count(trace, {"CDolLoader::Load"}) = 1
    /\ Count(trace, {"reg:PC"}) = 1
    /\ FirstAt(trace, "CDolLoader::Load") < FirstAt(trace, "reg:PC")
    /\ ppcState["PC"] = env.exe.entry

\* C13: a BootUp of a valid DOL that is not for the secondary console, with
\* the stub not in effect, returns true with PC equal to the entry point of
\* the container, the segments having been loaded before PC was written.
C13_DolEntryPoint ==
    ValidDOLBoot /\ ~env.exe.isWii /\ ~env.stub.applies =>
        ReturnedTrue /\ LoadedThenEntered

\* the container of entry point 0x80003100 under a primary-console configuration
C13_Witness ==
    /\ ValidDOLBoot /\ ~env.exe.isWii /\ ~cfg.bWii /\ ~env.stub.applies
    /\ env.exe.entry = W(\h8000, \h3100)
    /\ ReturnedTrue
    /\ ppcState["PC"] = W(\h8000, \h3100)

\* C19: every BootUp of a valid DOL, whether or not the stub applies, loads
\* the segments of the container and sets PC to its entry point before it
\* returns true.
C19_DolAlwaysLoads ==
    ValidDOLBoot => ReturnedTrue /\ LoadedThenEntered

----------------------------------------------------------------------------
(* Symbol maps *)

RanFindMapFile == entry = "FindMapFile"

\* the index of the last "/" or "\" of the path, 0 when it has none
LastSeparator(path) ==
    LET at == {i \in DOMAIN path : path[i] \in {"/", "\\"}}
    IN  IF at = {} THEN 0 ELSE CHOOSE i \in at : \A j \in at : j <= i

\* C14: for a DOL or ELF boot the title id is the path without everything up
\* to and including its last separator of either kind and without its last
\* 4 characters; for every other boot type but the installed title it is
\* the game id of the configuration.
C14_TitleIdFromPath ==
    RanFindMapFile =>
        /\ cfg.m_BootType \in {"BOOT_DOL", "BOOT_ELF"} =>
              out.title_id = Join(SubSeq(cfg.m_strFilename,
                                         LastSeparator(cfg.m_strFilename) + 1,
                                         Len(cfg.m_strFilename) - 4))
        /\ cfg.m_BootType \notin {"BOOT_DOL", "BOOT_ELF", "BOOT_WII_NAND"} =>
              out.title_id = Join(cfg.gameID)

\* "C:/games/Foo.dol" gives "Foo"
C14_Witness ==
    /\ RanFindMapFile /\ cfg.m_BootType = "BOOT_DOL"
    /\ Join(cfg.m_strFilename) = "C:/games/Foo.dol"
    /\ out.title_id = "Foo"

\* C15: the user directory is searched before the system directory and the
\* search stops at the first that holds {title id}.map: found exactly when
\* one of them holds it, the user path returned when both do; the writable
\* path is always the user directory + title id + ".map".
C15_UserDirectoryFirst ==
    RanFindMapFile =>
        /\ out.found = (env.map.user \/ env.map.sys)
        /\ ret = out.found
        /\ env.map.user => out.existing = USER_MAPS_DIR \o out.title_id \o ".map"
        /\ ~env.map.user /\ env.map.sys =>
              out.existing = SYS_MAPS_DIR \o out.title_id \o ".map"
        /\ out.writable = USER_MAPS_DIR \o out.title_id \o ".map"

\* the map is in both directories: the user path is the existing one
C15_Witness ==
    /\ RanFindMapFile /\ env.map.user /\ env.map.sys
    /\ cfg.m_BootType = "BOOT_ELF"
    /\ out.found
    /\ out.existing = "User/Maps/Foo.map"
    /\ out.writable = "User/Maps/Foo.map"

----------------------------------------------------------------------------
(* Disc boots and mismatches *)

MismatchWarnings ==
    {"PanicAlertT:starting ISO in wrong console mode",
     "PanicAlertT:starting DOL in wrong console mode",
     "PanicAlertT:IPL found in wrong directory",
     "PanicAlertT:IPL with unknown hash"}

\* C16: a mismatch of console mode or of region is a warning and nothing
\* else: no BootUp that raised one returns false, and what BootUp returns
\* is decided by the disc, the container and the firmware read alone, as in
\* a boot where everything matches. The DOL and the region warnings are
\* raised exactly on a mismatch.
C16_MismatchOnlyWarns ==
    RanBootUp =>
        /\ Count(trace, MismatchWarnings) > 0 => ~ReturnedFalse
        /\ cfg.m_BootType = "BOOT_ISO" /\ status = "returned" =>
              ret = (env.disc.mounted # "none")
        /\ cfg.m_BootType = "BOOT_DOL" => status = "returned" /\ ret = env.exe.valid
        /\ cfg.m_BootType = "BOOT_BS2" /\ status = "returned" => ret = env.fw.readOk
        /\ status # "returned" => env.fw.readOk /\ env.fw.dataSize < FullImageSize
        /\ cfg.m_BootType = "BOOT_DOL" /\ env.exe.valid =>
              (Has("PanicAlertT:starting DOL in wrong console mode")
                  <=> env.exe.isWii # cfg.bWii)
        /\ Has("ReadFileToString=true") =>
              (Has("PanicAlertT:IPL found in wrong directory")
                  <=> /\ IplRegion(env.fw.ipl_hash) # "UNKNOWN_REGION"
                      /\ IplRegion(env.fw.ipl_hash) # cfg.m_region)

\* a disc boot that raised the console-mode and the region warning and
\* returned true
C16_Witness ==
    /\ RanBootUp /\ cfg.m_BootType = "BOOT_ISO"
    /\ Has("PanicAlertT:starting ISO in wrong console mode")
    /\ Has("PanicAlertT:IPL found in wrong directory")
    /\ ReturnedTrue

\* the stub call that matches the platform of the mounted volume
StubFor(v) == IF v = "WII_DISC" THEN "EmulatedBS2(wii)" ELSE "EmulatedBS2(gc)"

\* C17: in a disc boot with a disc present, the console-mode flag of the
\* configuration ends equal to the platform of the volume whatever it was
\* before, the stub (when it runs) is given the detected platform, and the
\* warning is raised exactly when flag and platform differed.
C17_DetectedModeWins ==
    [][(entry' = "BootUp" /\ cfg.m_BootType = "BOOT_ISO" /\ volume' # "none") =>
          /\ cfg'.bWii = (volume' = "WII_DISC")
          /\ OpsOf(trace') \cap StubOps \subseteq {StubFor(volume')}
          /\ cfg.bHLE_BS2 => StubFor(volume') \in OpsOf(trace')
          /\ ("PanicAlertT:starting ISO in wrong console mode" \in OpsOf(trace'))
                <=> (cfg.bWii # (volume' = "WII_DISC"))]_vars

\* a secondary-console disc booted through the stub under a configuration
\* that no longer says primary console: the warning was raised
C17_Witness ==
    /\ RanBootUp /\ cfg.m_BootType = "BOOT_ISO"
    /\ volume = "WII_DISC" /\ cfg.bWii
    /\ Has("PanicAlertT:starting ISO in wrong console mode")
    /\ Has("EmulatedBS2(wii)")
    /\ ReturnedTrue

\* C18: in a disc boot, whenever the stub did the bring-up (requested, or as
\* the fallback after a failed Load_BS2) and debugging is disabled, the range
\* 0x80004000..0x811fffff is scanned and, if the signature database loads,
\* it is applied and the functions patched; there is no scan when the real
\* firmware was loaded or debugging is enabled.
C18_ScanWheneverStubUsed ==
    RanBootUp /\ cfg.m_BootType = "BOOT_ISO" /\ ReturnedTrue =>
        /\ Count(trace, StubOps) > 0 /\ ~cfg.bEnableDebugging =>
              /\ Has("PPCAnalyst::FindFunctions")
              /\ env.sigdb => Has("SignatureDB::Apply") /\ Has("HLE::PatchFunctions")
        /\ Has("Load_BS2=true") \/ cfg.bEnableDebugging =>
              ~Has("PPCAnalyst::FindFunctions")

----------------------------------------------------------------------------
(* ELF boots *)

ELFBoot == RanBootUp /\ cfg.m_BootType = "BOOT_ELF"

BringUpOps == {"SetupWiiMemory", "EmulatedBS2_GC(true)"}

FstOps == {"Load_FST", "Volume.Read", "CopyToEmu", "Write_U32"}

DebuggerOps == {"Host_NotifyMapLoaded", "Dolphin_Debugger::AddAutoBreakpoints"}

\* every event of the first kind precedes every event of the second kind
Precede(first, second) ==
    \A i \in DOMAIN trace : \A j \in DOMAIN trace :
        trace[i].op \in first /\ trace[j].op \in second => i < j

\* C20: an ELF boot mounts (the directory root, else the default image, else
\* nothing), then brings the system up (system-memory initialisation when
\* the console-mode flag is set, otherwise the stub, unconditionally), then
\* runs Load_FST, then parses and loads the ELF. An invalid ELF makes BootUp
\* return false only after the mount, the bring-up and Load_FST have taken
\* effect, and their effects stay; the debugger notification and the
\* auto-breakpoints happen only when the ELF loaded.
C20_ElfStepsInOrder ==
    ELFBoot =>
        /\ status = "returned" /\ ret = env.exe.valid
        /\ Count(trace, MountOps) = IF cfg.hasDVDRoot \/ cfg.hasDefaultISO THEN 1 ELSE 0
        /\ cfg.hasDVDRoot => Has("SetVolumeDirectory")
        /\ ~cfg.hasDVDRoot /\ cfg.hasDefaultISO => Has("SetVolumeName:m_strDefaultISO")
        /\ Count(trace, BringUpOps) = 1
        /\ Has("SetupWiiMemory") <=> cfg.bWii
        /\ Has("Load_FST") <=> volume # "none"
        /\ Count(trace, {"Boot_ELF"}) = 1
        /\ Precede(MountOps, BringUpOps)
        /\ Precede(BringUpOps, FstOps)
        /\ Precede(MountOps \cup BringUpOps \cup FstOps, {"Boot_ELF"})
        /\ Precede({"Boot_ELF"}, DebuggerOps)
        /\ \A op \in DebuggerOps : Has(op) <=> env.exe.valid
        /\ volume # "none" <=>
              (cfg.hasDVDRoot \/ cfg.hasDefaultISO) /\ env.disc.mounted # "none"
        /\ volume # "none" =>
              /\ Count(trace, {"Write_U32"}) = 4
              /\ low[\h34] = ArenaHigh(env.disc.max_fst_size, IF cfg.bWii THEN 2 ELSE 0)
        /\ ~env.exe.valid => trace[Len(trace)].op = "Boot_ELF"

\* an invalid ELF on a primary console with a disc mounted: BootUp returned
\* false with the disc mounted and the arena slots written
C20_Witness ==
    /\ ELFBoot /\ ~env.exe.valid /\ ReturnedFalse
    /\ ~cfg.bWii /\ Has("EmulatedBS2_GC(true)")
    /\ volume = "GAMECUBE_DISC"
    /\ Has("Load_FST") /\ Has("CopyToEmu")
    /\ low[\h38] = low[\h34] /\ low[\h34] # Zero32

----------------------------------------------------------------------------
(* The writes of Load_FST *)

IsMemoryWrite(ev) == ev.op \in MemoryWriteOps

IsDiscRead(ev) == ev.op = "Volume.Read"

\* the shift the claim gives to the header fields
ClaimedShift == IF cfg.bWii THEN 2 ELSE 0

\* C21: with a disc mounted Load_FST writes, in this order, the 32-byte
\* header to address 0, the word then at address 0 to 0x3180, the arena
\* boundary to 0x34, the FST (read at the scaled fst_offset, of the scaled
\* fst_size) to the boundary, the boundary to 0x38 and the scaled
\* max-FST-size to 0x3c; 0x34 and 0x38 end equal; the three fields are
\* shifted left by 2 exactly when the argument is true.
C21_WritesInOrder ==
    RanLoad_FST /\ Has("Load_FST") =>
        /\ SelectSeq(trace, IsMemoryWrite) =
              << Ev("CopyToEmu", <<Zero32, W(0, \h20)>>),
                 Ev("Write_U32", <<low[0], W(0, \h3180)>>),
                 Ev("Write_U32", <<low[\h34], W(0, \h34)>>),
                 Ev("CopyToEmu", <<low[\h34], Shl32(env.disc.fst_size, ClaimedShift)>>),
                 Ev("Write_U32", <<low[\h34], W(0, \h38)>>),
                 Ev("Write_U32", <<Shl32(env.disc.max_fst_size, ClaimedShift), W(0, \h3c)>>) >>
        /\ SelectSeq(trace, IsDiscRead) =
              << Ev("Volume.Read", <<Zero32, W(0, \h20)>>),
                 Ev("Volume.Read", <<Shl32(env.disc.fst_offset, ClaimedShift),
                                     Shl32(env.disc.fst_size, ClaimedShift)>>) >>
        /\ low[0] = env.disc.gameId /\ low[\h3180] = low[0]
        /\ low[\h34] = low[\h38]
        /\ low[\h3c] = Shl32(env.disc.max_fst_size, ClaimedShift)

====
